---- MODULE Spec2Model ----
(***************************************************************************)
(* openpile: Model construction (mesh generation), the boundary-condition  *)
(* setters of openpile.construct.Model and the iteration of                *)
(* openpile.analyze.simple_winkler_analysis.                               *)
(*                                                                         *)
(* Elevations, lengths and the coarseness are exact rationals, held as     *)
(* integer numbers of "ticks".  The inputs are given in quarters of a      *)
(* millimetre; one quarter millimetre is Tick ticks, where Tick is the     *)
(* least common multiple of every divider the meshing loop may use, so     *)
(* that spacing / divider is exact.  One millimetre (the third decimal of  *)
(* a value in metres) is Mm ticks.  Floating-point round-off is not        *)
(* modelled.                                                               *)
(* An Optional value is a sequence of length 0 (None) or 1.                *)
(***************************************************************************)
EXTENDS Integers, Sequences, FiniteSets, TLC

VARIABLES
    phase,                \* "new" | "created" | "failed" | "looping"
    error,                \* exception that ended Model.create or the
                          \*   analysis, "" if none
    self,                 \* the fields Model.create was called with
    x,                    \* get_coordinates: the array x before rounding
    nodes_coordinates,    \* "x [m]" column, one entry per node
    element_coordinates,  \* "x_top [m]" / "x_bottom [m]", one per element
    py_springs,           \* per element: "zero" or "curve"
    mt_springs,
    element_properties,   \* per element, the pile section whose values it holds
    soil_properties,      \* per element: weight and vertical stresses
    Hb_spring,
    Mb_spring,
    global_forces,        \* per node [Px, Py, Mz]
    global_disp,          \* per node [Tx, Ty, Rz]
    global_restrained,    \* per node [Tx, Ty, Rz] booleans
    lastCall,             \* the latest boundary-condition call and its outcome
    before,               \* the three boundary-condition tables before lastCall
    ncalls,               \* number of boundary-condition calls made
    run,                  \* simple_winkler_analysis: "none" | "loop" |
                          \*   "solved" | "updated" (inside the loop body) |
                          \*   "after" (the loop is left) | "done" | "raised"
    w,                    \* the local variables of simple_winkler_analysis
    solved,               \* the arguments of the latest solve_equations call
    stdout,               \* the messages printed by the analysis
    results,              \* what the analysis returned
    previous              \* the call before this one: its arguments and result

vars == <<phase, error, self, x, nodes_coordinates, element_coordinates,
          element_properties, soil_properties,
          py_springs, mt_springs, Hb_spring, Mb_spring,
          global_forces, global_disp, global_restrained,
          lastCall, before, ncalls, run, w, solved, stdout, results,
          previous>>

meshVars == <<x, nodes_coordinates, element_coordinates, element_properties>>
springVars == <<soil_properties, py_springs, mt_springs, Hb_spring, Mb_spring>>
bcVars == <<global_forces, global_disp, global_restrained>>
callVars == <<lastCall, before, ncalls>>
analysisVars == <<run, w, solved, stdout, results, previous>>

----------------------------------------------------------------------------
(* Bounds *)

\* largest divider the subdivision loop is allowed to reach in the model
MaxDivider == 8

\* number of boundary-condition calls explored after construction
MaxCalls == 3

\* largest max_iter tried besides the default one
MaxIter == 2

----------------------------------------------------------------------------
(* Units *)

RECURSIVE Gcd(_, _)
Gcd(a, b) == IF b = 0 THEN a ELSE Gcd(b, a % b)

Lcm(a, b) == (a * b) \div Gcd(a, b)

RECURSIVE LcmUpTo(_)
LcmUpTo(n) == IF n <= 1 THEN 1 ELSE Lcm(n, LcmUpTo(n - 1))

\* ticks in a quarter of a millimetre
Tick == LcmUpTo(MaxDivider)

\* ticks in one millimetre, i.e. 0.001 m
Mm == 4 * Tick

\* a value given in quarter millimetres, in ticks
Q(n) == n * Tick

Abs(a) == IF a < 0 THEN 0 - a ELSE a

Max(S) == CHOOSE m \in S : \A s \in S : s <= m

Min(S) == CHOOSE m \in S : \A s \in S : m <= s

Range(s) == {s[i] : i \in DOMAIN s}

RECURSIVE SumSeq(_)
SumSeq(s) == IF s = <<>> THEN 0 ELSE Head(s) + SumSeq(Tail(s))

----------------------------------------------------------------------------
(* numpy / pandas helpers *)

\* np.unique(x)[::-1] : the distinct values, in decreasing order
RECURSIVE unique_reversed(_)
unique_reversed(S) ==
    IF S = {} THEN <<>>
    ELSE LET m == Max(S) IN <<m>> \o unique_reversed(S \ {m})

\* DataFrame.round(3): to the nearest millimetre, ties to the even one
round3(t) ==
    LET q == t \div Mm
        r == t % Mm
    IN  IF 2 * r < Mm THEN q * Mm
        ELSE IF 2 * r > Mm THEN (q + 1) * Mm
        ELSE IF q % 2 = 0 THEN q * Mm ELSE (q + 1) * Mm

----------------------------------------------------------------------------
(* Pile *)

\* Pile._postinit: the "Elevation [m]" column of Pile.data, the top and the
\* bottom of every section in turn
RECURSIVE section_elevations(_, _)
section_elevations(top, lengths) ==
    IF lengths = <<>> THEN <<>>
    ELSE <<top, top - Head(lengths)>>
         \o section_elevations(top - Head(lengths), Tail(lengths))

pile_data_elevation(pile) == section_elevations(pile.top_elevation, pile.lengths)

\* Pile.bottom_elevation
pile_bottom_elevation(pile) == pile.top_elevation - SumSeq(pile.lengths)

----------------------------------------------------------------------------
(* Layer and SoilProfile *)

\* Layer.check_elevations: a layer is accepted when top > bottom
check_elevations(layer) == layer.top > layer.bottom

\* the layers ordered by decreasing top elevation (argsort, reversed)
RECURSIVE layers_by_top(_)
layers_by_top(layers) ==
    IF layers = <<>> THEN <<>>
    ELSE LET i == CHOOSE i \in DOMAIN layers :
                    \A j \in DOMAIN layers : layers[j].top <= layers[i].top
             rest == [k \in 1..(Len(layers) - 1) |->
                        IF k < i THEN layers[k] ELSE layers[k + 1]]
         IN  <<layers[i]>> \o layers_by_top(rest)

\* SoilProfile.check_layers_elevations: the uppermost layer starts at
\* top_elevation and every layer starts within 1 mm of the bottom of the
\* layer above
check_layers_elevations(sp) ==
    LET sorted == layers_by_top(sp.layers)
    IN  /\ Len(sorted) > 0
        /\ sorted[1].top = sp.top_elevation
        /\ \A i \in 1..(Len(sorted) - 1) :
              Abs(sorted[i + 1].top - sorted[i].bottom) <= Mm

\* SoilProfile.bottom_elevation
soil_bottom_elevation(sp) ==
    sp.top_elevation
    - SumSeq([i \in DOMAIN sp.layers |-> Abs(sp.layers[i].top - sp.layers[i].bottom)])

----------------------------------------------------------------------------
(* Model: validation *)

\* the validator with the comparison of the two bottoms reversed
validator_reversed(pile, soil) ==
    IF soil = <<>> THEN "AttributeError"
    ELSE IF pile_bottom_elevation(pile) > soil_bottom_elevation(soil[1])
         THEN "UserWarning"
         ELSE ""

\* Model.soil_and_pile_bottom_elevation_match.  The result is the exception
\* the validator ends with, "" when it returns the values.  With soil = None
\* the attribute bottom_elevation is read on None.
soil_and_pile_bottom_elevation_match(pile, soil) ==
    IF soil = <<>> THEN "AttributeError"
    ELSE IF pile_bottom_elevation(pile) < soil_bottom_elevation(soil[1])
         THEN "UserWarning"
         ELSE ""

----------------------------------------------------------------------------
(* Model._postinit.get_coordinates *)

\* the elevations of the soil layers that are meshed
soil_elevations(pile, soil) ==
    IF soil = <<>> THEN {}
    ELSE LET all == {soil[1].layers[i].top : i \in DOMAIN soil[1].layers}
                    \cup {soil[1].layers[i].bottom : i \in DOMAIN soil[1].layers}
             bottom == pile_bottom_elevation(pile)
         IN  IF \E e \in all : e < bottom
             THEN {e \in all \cup {bottom} : e >= bottom}
             ELSE all

\* the primary discretisation without the user-defined elevations
primary_x_without_x2mesh(pile, soil, x2mesh) ==
    unique_reversed(Range(pile_data_elevation(pile))
                    \cup soil_elevations(pile, soil))

\* primary discretisation: pile sections, soil layers, x2mesh
primary_x(pile, soil, x2mesh) ==
    unique_reversed(Range(pile_data_elevation(pile))
                    \cup soil_elevations(pile, soil)
                    \cup Range(x2mesh))

\* the while loop: the first divider for which spacing / divider is not
\* above the coarseness (coarseness > 0)
RECURSIVE divider_loop(_, _, _)
divider_loop(spacing, coarseness, divider) ==
    IF spacing > coarseness * divider
    THEN divider_loop(spacing, coarseness, divider + 1)
    ELSE divider

\* a divider rounded down instead of up
divider_rounded_down(spacing, coarseness) ==
    IF spacing \div coarseness < 1 THEN 1 ELSE spacing \div coarseness

divider_of(spacing, coarseness) == divider_loop(spacing, coarseness, 1)

\* new_x with the range starting at 0 and ending one step early
new_x_from_zero(top, spacing, divider) ==
    {top - k * (spacing \div divider) : k \in 0..(divider - 2)}

\* new_x of one interval: x[i] - arange(1, divider) * new_spacing
new_x(top, spacing, divider) ==
    {top - k * (spacing \div divider) : k \in 1..(divider - 1)}

\* secondary discretisation of every interval of the primary one
x_secondary(xs, coarseness) ==
    UNION {new_x(xs[i], xs[i] - xs[i + 1],
                 divider_of(xs[i] - xs[i + 1], coarseness)) :
           i \in 1..(Len(xs) - 1)}

\* the assembled x coordinates, before the tables are built
mesh_x(pile, soil, x2mesh, coarseness) ==
    LET xs == primary_x(pile, soil, x2mesh)
    IN  unique_reversed(Range(xs) \cup x_secondary(xs, coarseness))

\* the "x [m]" column of the nodes table
nodes_table(xs) == [i \in DOMAIN xs |-> round3(xs[i])]

\* the "x_top [m]" and "x_bottom [m]" columns of the element table
element_table(xs) ==
    [i \in 1..(Len(xs) - 1) |->
        [x_top |-> round3(xs[i]), x_bottom |-> round3(xs[i + 1])]]

----------------------------------------------------------------------------
(* Model._postinit: soil properties and springs *)

\* a float that may be NaN: <<>> is NaN, <<v>> is the value v
NaN == <<>>

Float(v) == <<v>>

\* Pile.data: two rows per section, its top and its bottom, in the order of
\* the sections; "section" stands for the diameter, the wall thickness, the
\* area and the second moment of area, which are those of one section
RECURSIVE pile_data_from(_, _, _)
pile_data_from(top, lengths, k) ==
    IF lengths = <<>> THEN <<>>
    ELSE <<[Elevation |-> top, section |-> k],
           [Elevation |-> top - Head(lengths), section |-> k]>>
         \o pile_data_from(top - Head(lengths), Tail(lengths), k + 1)

pile_data(pile) == pile_data_from(pile.top_elevation, pile.lengths, 1)

\* sort_values(by=["Elevation [m]"]) uses an unstable sort (quicksort): rows
\* of equal elevation come out in their order in the table or exchanged
SortOrders == {"as in the table", "exchanged"}

RECURSIVE sort_values(_, _)
sort_values(rows, order) ==
    IF rows = <<>> THEN <<>>
    ELSE LET lowest == Min({rows[j].Elevation : j \in DOMAIN rows})
             ties == {j \in DOMAIN rows : rows[j].Elevation = lowest}
             j == IF order = "exchanged" THEN Max(ties) ELSE Min(ties)
         IN  <<rows[j]>>
             \o sort_values(SubSeq(rows, 1, j - 1)
                            \o SubSeq(rows, j + 1, Len(rows)), order)

\* pd.merge_asof(..., direction="forward"): the index of the first row of
\* the sorted right table whose key is >= the key of the left row, 0 if none
merge_asof_forward(key, right) ==
    LET hits == {j \in DOMAIN right : right[j].Elevation >= key}
    IN  IF hits = {} THEN 0 ELSE Min(hits)

\* element_properties: the pile section whose row each element is merged
\* with (0: no row, the properties are NaN)
element_properties_of(elements, pile, order) ==
    LET right == sort_values(pile_data(pile), order)
    IN  [i \in DOMAIN elements |->
            LET j == merge_asof_forward(elements[i].x_top, right)
            IN  IF j = 0 THEN 0 ELSE right[j].section]

\* get_soil_profile: the top and the unit weight of every layer
get_soil_profile(soil) ==
    [j \in DOMAIN soil.layers |->
        [Elevation |-> soil.layers[j].top, weight |-> soil.layers[j].weight]]

\* what is subtracted from the unit weight below the water elevation
BuoyantCorrection == 10

\* the "Unit Weight [kN/m3]" column: the weight of the layer merged with the
\* element (the lowest layer top at or above x_top), less the correction
\* when x_top <= water_elevation
unit_weight(element, soil) ==
    LET right == sort_values(get_soil_profile(soil), "as in the table")
        j == merge_asof_forward(element.x_top, right)
    IN  IF j = 0 THEN NaN
        ELSE IF element.x_top <= soil.water_elevation
        THEN Float(right[j].weight - BuoyantCorrection)
        ELSE Float(right[j].weight)

\* Series.cumsum(): NaN entries stay NaN and are left out of the sum
cumsum(s) ==
    [i \in DOMAIN s |->
        IF s[i] = NaN THEN NaN
        ELSE Float(SumSeq([k \in 1..i |-> IF s[k] = NaN THEN 0 ELSE s[k][1]]))]

\* soil_properties, for a mesh with exactly one row g at the ground level:
\* s = (x_top - x_bottom) * weight, "sigma_v bottom" = s.cumsum(),
\* "sigma_v top" = np.insert(s.cumsum()[:-1], g, 0.0)
soil_properties_of(elements, soil, g) ==
    LET weight == [i \in DOMAIN elements |-> unit_weight(elements[i], soil)]
        s == [i \in DOMAIN elements |->
                 IF weight[i] = NaN THEN NaN
                 ELSE Float((elements[i].x_top - elements[i].x_bottom)
                            * weight[i][1])]
        cum == cumsum(s)
    IN  [i \in DOMAIN elements |->
            [x_top |-> elements[i].x_top, x_bottom |-> elements[i].x_bottom,
             weight |-> weight[i],
             sigma_v_top |-> IF i < g THEN cum[i]
                             ELSE IF i = g THEN Float(0) ELSE cum[i - 1],
             sigma_v_bottom |-> cum[i]]]

\* np.where(x_top == soil.top_elevation): the rows at which np.insert puts
\* the zero of "sigma_v top [kPa]"; the column fits the table only when
\* exactly one row is found, otherwise the assignment raises ValueError
ground_rows(elements, soil) ==
    {i \in DOMAIN elements : elements[i].x_top = soil[1].top_elevation}

\* create_springs: elements_for_layer
elements_for_layer(elements, layer) ==
    {i \in DOMAIN elements :
        elements[i].x_top <= layer.top /\ elements[i].x_bottom >= layer.bottom}

\* create_springs: element i receives the curves of mechanism k (1: p-y,
\* 2: m-t) when some layer holding it has a lateral model declaring it and
\* the Model's flag is set
spring_table(elements, soil, k, flag) ==
    [i \in DOMAIN elements |->
        IF \E j \in DOMAIN soil[1].layers :
              LET layer == soil[1].layers[j]
              IN  /\ i \in elements_for_layer(elements, layer)
                  /\ layer.lateral_model # <<>>
                  /\ layer.lateral_model[1].spring_signature[k]
                  /\ flag
        THEN "curve" ELSE "zero"]

\* the zero-initialised boundary-condition tables
zero_forces(nodes) == [i \in DOMAIN nodes |-> [Px |-> 0, Py |-> 0, Mz |-> 0]]

zero_disp(nodes) == [i \in DOMAIN nodes |-> [Tx |-> 0, Ty |-> 0, Rz |-> 0]]

zero_restrained(nodes) ==
    [i \in DOMAIN nodes |-> [Tx |-> FALSE, Ty |-> FALSE, Rz |-> FALSE]]

----------------------------------------------------------------------------
(* State before Model.create *)

\* the elevations of the nodes
NodeElevations == Range(nodes_coordinates)

NoSelf ==
    [pile |-> [top_elevation |-> 0, lengths |-> <<>>], soil |-> <<>>,
     x2mesh |-> <<>>, coarseness |-> 0,
     distributed_lateral |-> FALSE, distributed_moment |-> FALSE,
     base_shear |-> FALSE, base_moment |-> FALSE]

NoCall ==
    [op |-> "none", elevation |-> 0, args |-> <<>>, outcome |-> "none",
     node |-> 0, printed |-> <<>>]

NoTables == [forces |-> <<>>, disp |-> <<>>, restrained |-> <<>>]

\* simple_winkler_analysis has not been entered: no local variable is bound
NoLocals ==
    [fn |-> "none", max_iter |-> 0, iter_no |-> 0, F |-> <<>>, U |-> <<>>,
     d |-> <<>>,
     K |-> <<>>, supports |-> <<>>, Rg |-> <<>>, u_inc |-> <<>>, Q |-> <<>>,
     F_ext |-> <<>>, K_secant |-> <<>>]

\* no solve_equations call has been made
NoSolve ==
    [count |-> 0, iter_no |-> 0, K |-> <<>>, F |-> <<>>, U |-> <<>>,
     d |-> <<>>, raised |-> FALSE, tested |-> FALSE, met |-> FALSE,
     met_first |-> FALSE, reference |-> 0, first_reference |-> 0,
     converged |-> FALSE]

Init ==
    /\ phase = "new"
    /\ error = ""
    /\ self = NoSelf
    /\ x = <<>>
    /\ nodes_coordinates = <<>>
    /\ element_coordinates = <<>>
    /\ element_properties = <<>>
    /\ soil_properties = <<>>
    /\ py_springs = <<>>
    /\ mt_springs = <<>>
    /\ Hb_spring = <<>>
    /\ Mb_spring = <<>>
    /\ global_forces = <<>>
    /\ global_disp = <<>>
    /\ global_restrained = <<>>
    /\ lastCall = NoCall
    /\ before = NoTables
    /\ ncalls = 0
    /\ run = "none"
    /\ w = NoLocals
    /\ solved = NoSolve
    /\ stdout = <<>>
    /\ results = <<>>
    /\ previous = <<>>

----------------------------------------------------------------------------
(* Model.create *)

\* every interval of the primary discretisation is cut in at most
\* MaxDivider parts (the bound of the model on the subdivision loop)
WithinMaxDivider(pile, soil, x2mesh, coarseness) ==
    LET xs == primary_x(pile, soil, x2mesh)
    IN  \A i \in 1..(Len(xs) - 1) :
            (xs[i] - xs[i + 1] + coarseness - 1) \div coarseness <= MaxDivider

\* cls(...) runs the validator, then _postinit builds the tables in turn.
\* A validator error leaves nothing behind; with coarseness <= 0 the
\* subdivision loop of get_coordinates does not end; a ValueError of the
\* "sigma_v top [kPa]" assignment ends _postinit after the mesh tables.
create(pile, soil, x2mesh, coarseness, flags) ==
    /\ phase = "new"
    /\ coarseness > 0 => WithinMaxDivider(pile, soil, x2mesh, coarseness)
    /\ self' = [pile |-> pile, soil |-> soil, x2mesh |-> x2mesh,
                coarseness |-> coarseness,
                distributed_lateral |-> flags.distributed_lateral,
                distributed_moment |-> flags.distributed_moment,
                base_shear |-> flags.base_shear,
                base_moment |-> flags.base_moment]
    /\ UNCHANGED <<callVars, analysisVars>>
    /\ LET invalid == soil_and_pile_bottom_elevation_match(pile, soil)
       IN  IF invalid # ""
           THEN /\ phase' = "failed"
                /\ error' = invalid
                /\ UNCHANGED <<meshVars, springVars, bcVars>>
           ELSE IF coarseness <= 0
           THEN /\ phase' = "looping"
                /\ error' = ""
                /\ UNCHANGED <<meshVars, springVars, bcVars>>
           ELSE LET xs == mesh_x(pile, soil, x2mesh, coarseness)
                    nodes == nodes_table(xs)
                    elements == element_table(xs)
                IN  /\ x' = xs
                    /\ nodes_coordinates' = nodes
                    /\ element_coordinates' = elements
                    /\ \E order \in SortOrders :
                          element_properties' =
                              element_properties_of(elements, pile, order)
                    /\ IF Cardinality(ground_rows(elements, soil)) # 1
                       THEN /\ phase' = "failed"
                            /\ error' = "ValueError"
                            /\ UNCHANGED <<springVars, bcVars>>
                       ELSE /\ phase' = "created"
                            /\ error' = ""
                            /\ global_forces' = zero_forces(nodes)
                            /\ global_disp' = zero_disp(nodes)
                            /\ global_restrained' = zero_restrained(nodes)
                            /\ soil_properties' =
                                  soil_properties_of(elements, soil[1],
                                      CHOOSE g \in ground_rows(elements, soil)
                                          : TRUE)
                            /\ py_springs' = spring_table(elements, soil, 1,
                                                flags.distributed_lateral)
                            /\ mt_springs' = spring_table(elements, soil, 2,
                                                flags.distributed_moment)
                            /\ Hb_spring' = <<"zero">>
                            /\ Mb_spring' = <<"zero">>

----------------------------------------------------------------------------
(* Boundary conditions: set_pointload, set_pointdisplacement, set_support *)

\* the inverse of the relative tolerance np.isclose uses when none is passed
RtolInv == 100000

\* np.isclose(a, b, atol=0.001): |a - b| <= atol + rtol * |b|
isclose(a, b) == Abs(a - b) - Mm <= Abs(b) \div RtolInv

\* check: the nodes whose elevation np.isclose accepts for the elevation
check(nodes, elevation) ==
    {i \in DOMAIN nodes : isclose(nodes[i], elevation)}

\* the message chosen with the first and the last node exchanged
message_ends_exchanged(nodes, elevation) ==
    IF elevation > nodes[Len(nodes)] \/ elevation < nodes[1]
    THEN "outside the mesh"
    ELSE "not meshed as a node"

\* the message printed when no node corresponds
not_applied_message(nodes, elevation) ==
    IF elevation > nodes[1] \/ elevation < nodes[Len(nodes)]
    THEN "outside the mesh"
    ELSE "not meshed as a node"

\* what a setter does with the elevation:
\*   "applied"  exactly one node corresponds, node_idx is extracted
\*   "raised"   several nodes correspond: int() of an array of several
\*              indices raises, the except clause prints and re-raises
\*   "rejected" no node corresponds, one message is printed
placement(nodes, elevation) ==
    LET found == check(nodes, elevation)
    IN  IF found # {}
        THEN IF Cardinality(found) = 1
             THEN [outcome |-> "applied",
                   node |-> CHOOSE i \in found : TRUE, printed |-> <<>>]
             ELSE [outcome |-> "raised", node |-> 0,
                   printed |-> <<"User Input Error">>]
        ELSE [outcome |-> "rejected", node |-> 0,
              printed |-> <<not_applied_message(nodes, elevation)>>]

\* a component that is None wipes the stored value
given_or_zero(arg, stored) == IF arg # <<>> THEN arg[1] ELSE 0

\* one optional component: the value passed, or the stored one for None
given(arg, stored) == IF arg # <<>> THEN arg[1] ELSE stored

\* loads added to the stored ones instead of replacing them
accumulate_pointload(row, args) ==
    [Px |-> IF args.Px # <<>> THEN row.Px + args.Px[1] ELSE row.Px,
     Py |-> IF args.Py # <<>> THEN row.Py + args.Py[1] ELSE row.Py,
     Mz |-> IF args.Mz # <<>> THEN row.Mz + args.Mz[1] ELSE row.Mz]

\* set_pointload: the components that are not None are assigned
assign_pointload(row, args) ==
    [Px |-> given(args.Px, row.Px),
     Py |-> given(args.Py, row.Py),
     Mz |-> given(args.Mz, row.Mz)]

\* set_pointdisplacement: the components that are not None are assigned
assign_pointdisplacement(row, args) ==
    [Tx |-> given(args.Tx, row.Tx),
     Ty |-> given(args.Ty, row.Ty),
     Rz |-> given(args.Rz, row.Rz)]

\* set_pointdisplacement: a component that is not None is restrained when
\* its value is > 0.0
restrain_pointdisplacement(row, args) ==
    [Tx |-> IF args.Tx # <<>> THEN args.Tx[1] > 0 ELSE row.Tx,
     Ty |-> IF args.Ty # <<>> THEN args.Ty[1] > 0 ELSE row.Ty,
     Rz |-> IF args.Rz # <<>> THEN args.Rz[1] > 0 ELSE row.Rz]

\* flags that are only ever switched on
switch_on_support(row, args) ==
    [Tx |-> row.Tx \/ args.Tx, Ty |-> row.Ty \/ args.Ty, Rz |-> row.Rz \/ args.Rz]

\* set_support: the three flags are assigned
assign_support(row, args) ==
    [Tx |-> args.Tx, Ty |-> args.Ty, Rz |-> args.Rz]

Snapshot ==
    [forces |-> global_forces, disp |-> global_disp,
     restrained |-> global_restrained]

Called(op, elevation, args, p) ==
    /\ lastCall' = [op |-> op, elevation |-> elevation, args |-> args,
                    outcome |-> p.outcome, node |-> p.node,
                    printed |-> p.printed]
    /\ before' = Snapshot
    /\ ncalls' = ncalls + 1
    /\ UNCHANGED <<phase, error, self, meshVars, springVars, analysisVars>>

set_pointload(elevation, args) ==
    /\ phase = "created"
    /\ ncalls < MaxCalls
    /\ LET p == placement(nodes_coordinates, elevation)
       IN  /\ Called("set_pointload", elevation, args, p)
           /\ global_forces' =
                 IF p.outcome = "applied"
                 THEN [global_forces EXCEPT
                          ![p.node] = assign_pointload(@, args)]
                 ELSE global_forces
           /\ UNCHANGED <<global_disp, global_restrained>>

set_pointdisplacement(elevation, args) ==
    /\ phase = "created"
    /\ ncalls < MaxCalls
    /\ LET p == placement(nodes_coordinates, elevation)
       IN  /\ Called("set_pointdisplacement", elevation, args, p)
           /\ global_disp' =
                 IF p.outcome = "applied"
                 THEN [global_disp EXCEPT
                          ![p.node] = assign_pointdisplacement(@, args)]
                 ELSE global_disp
           /\ global_restrained' =
                 IF p.outcome = "applied"
                 THEN [global_restrained EXCEPT
                          ![p.node] = restrain_pointdisplacement(@, args)]
                 ELSE global_restrained
           /\ UNCHANGED global_forces

set_support(elevation, args) ==
    /\ phase = "created"
    /\ ncalls < MaxCalls
    /\ LET p == placement(nodes_coordinates, elevation)
       IN  /\ Called("set_support", elevation, args, p)
           /\ global_restrained' =
                 IF p.outcome = "applied"
                 THEN [global_restrained EXCEPT
                          ![p.node] = assign_support(@, args)]
                 ELSE global_restrained
           /\ UNCHANGED <<global_forces, global_disp>>

----------------------------------------------------------------------------
(* openpile.core.kernel, as the design document describes it.            *)
(* Degrees of freedom are numbered 3 * (node - 1) + c with c = 1 (axial),  *)
(* 2 (transverse), 3 (rotation).  Forces, displacements and stiffnesses    *)
(* are integers in arbitrary units.                                        *)

Dofs(nodes) == 1..(3 * Len(nodes))

\* a vector held as an explicit sequence, every entry computed once
array(v) == v \o <<>>

NodeOf(k) == ((k - 1) \div 3) + 1

ComponentOf(k) == ((k - 1) % 3) + 1

mesh_to_global_force_dof_vector(forces) ==
    array([k \in 1..(3 * Len(forces)) |->
        LET row == forces[NodeOf(k)]
        IN  CASE ComponentOf(k) = 1 -> row.Px
              [] ComponentOf(k) = 2 -> row.Py
              [] OTHER -> row.Mz])

mesh_to_global_disp_dof_vector(disp) ==
    array([k \in 1..(3 * Len(disp)) |->
        LET row == disp[NodeOf(k)]
        IN  CASE ComponentOf(k) = 1 -> row.Tx
              [] ComponentOf(k) = 2 -> row.Ty
              [] OTHER -> row.Rz])

mesh_to_global_restrained_dof_vector(restrained) ==
    array([k \in 1..(3 * Len(restrained)) |->
        LET row == restrained[NodeOf(k)]
        IN  CASE ComponentOf(k) = 1 -> row.Tx
              [] ComponentOf(k) = 2 -> row.Ty
              [] OTHER -> row.Rz])

zeros(n) == array([k \in 1..n |-> 0])

\* the curve the lateral model returns for an element end: resistances p at
\* the displacements y (row 0 and row 1 of the spring table)
PyCurve == [p |-> <<0, 3, 3>>, y |-> <<0, 1, 2>>]

\* the entry create_springs leaves where no curve is stored
ZeroCurve == [p |-> <<0, 0, 0>>, y |-> <<0, 0, 0>>]

curve_of(entry) == IF entry = "curve" THEN PyCurve ELSE ZeroCurve

\* the segment of the curve that holds the displacement a >= 0; 0 beyond
\* the last point of the table
RECURSIVE segment_from(_, _, _)
segment_from(y, a, i) ==
    IF i >= Len(y) THEN 0
    ELSE IF a < y[i + 1] THEN i
    ELSE segment_from(y, a, i + 1)

\* the resistance at the displacement a >= 0: linear between the points of
\* the table, the last resistance beyond the table
interpolate(curve, a) ==
    LET i == segment_from(curve.y, a, 1)
    IN  IF i = 0 THEN curve.p[Len(curve.p)]
        ELSE curve.p[i] + ((curve.p[i + 1] - curve.p[i]) * (a - curve.y[i]))
                             \div (curve.y[i + 1] - curve.y[i])

\* the slope of segment i of the curve, 0 for an all-zero table
slope(curve, i) ==
    IF i = 0 \/ curve.y[i + 1] = curve.y[i] THEN 0
    ELSE (curve.p[i + 1] - curve.p[i]) \div (curve.y[i + 1] - curve.y[i])

\* the stiffness of one spring at the displacement u, as a fraction
\* <<numerator, denominator>>:
\*   initial  the slope of the first segment
\*   secant   resistance / displacement (the initial slope at u = 0)
\*   tangent  the slope of the segment that holds |u|
spring_stiffness(curve, u, kind) ==
    CASE kind = "initial" -> <<slope(curve, 1), 1>>
      [] kind = "tangent" ->
            <<slope(curve, segment_from(curve.y, Abs(u), 1)), 1>>
      [] OTHER ->
            IF u = 0 THEN <<slope(curve, 1), 1>>
            ELSE <<interpolate(curve, Abs(u)), Abs(u)>>

\* stiffness of one element between the same components of its two nodes
ElementStiffness == 1

\* the structural part of the stiffness matrix: every element ties each
\* component of its top node to the same component of its bottom node
structural_stiffness(nodes) ==
    array([i \in Dofs(nodes) |-> array([j \in Dofs(nodes) |->
        IF ComponentOf(i) # ComponentOf(j) THEN 0
        ELSE IF i = j
        THEN ElementStiffness *
               Cardinality({e \in 1..(Len(nodes) - 1) :
                               e = NodeOf(i) \/ e + 1 = NodeOf(i)})
        ELSE IF Abs(NodeOf(i) - NodeOf(j)) = 1 THEN 0 - ElementStiffness
        ELSE 0])])

\* the springs of the element ends that meet at a node (the bottom end of
\* the element above, the top end of the element below) added up; the
\* fractions of one node have the same denominator
node_stiffness(node, springs, u, kind) ==
    LET part(e) ==
            IF e \in DOMAIN springs
            THEN spring_stiffness(curve_of(springs[e]), u, kind)[1]
            ELSE 0
    IN  <<part(node - 1) + part(node),
          IF kind = "secant" /\ u # 0 THEN Abs(u) ELSE 1>>

\* build_stiffness_matrix(model, u, kind): the structural matrix and, for
\* each degree of freedom, the spring stiffness added to its diagonal term
\* (p-y springs on the transverse component; the m-t, Hb and Mb tables of
\* these models are all-zero).  kind and u are kept with the matrix.
build_stiffness_matrix(nodes, springs, u, kind) ==
    [kind |-> kind,
     u |-> u,
     structural |-> structural_stiffness(nodes),
     spring |-> array([k \in Dofs(nodes) |->
        IF ComponentOf(k) = 2
        THEN node_stiffness(NodeOf(k), springs, u[k], kind)
        ELSE <<0, 1>>])]

\* K.dot(v), for a v that the spring stiffnesses divide exactly
dot(K, v) ==
    array([i \in DOMAIN v |->
        SumSeq(array([j \in DOMAIN v |-> K.structural[i][j] * v[j]]))
        + ((K.spring[i][1] * v[i]) \div K.spring[i][2])])

\* entry (i, j) of a matrix whose spring stiffnesses are whole numbers
entry(K, i, j) ==
    K.structural[i][j]
    + (IF i = j THEN K.spring[i][1] \div K.spring[i][2] ELSE 0)

\* the determinant of a square matrix held as a sequence of rows
RECURSIVE Det(_)
Det(M) ==
    IF Len(M) = 0 THEN 1
    ELSE SumSeq(array([k \in 1..Len(M) |->
            IF M[1][k] = 0 THEN 0
            ELSE (IF k % 2 = 1 THEN 1 ELSE 0 - 1) * M[1][k] *
                 Det(array([r \in 1..(Len(M) - 1) |->
                        array([c \in 1..(Len(M) - 1) |->
                            M[r + 1][IF c < k THEN c ELSE c + 1]])]))]))

\* the degrees of freedom that are not restrained, in increasing order
free_dofs(restraints) ==
    SelectSeq([k \in DOMAIN restraints |-> k], LAMBDA k : ~restraints[k])

\* Q_r = K_rf.d_f + K_rr.U_r - F_r at the restrained degrees of freedom
reactions(K, F, u, restraints) ==
    array([k \in DOMAIN F |->
        IF restraints[k]
        THEN SumSeq(array([j \in DOMAIN F |-> entry(K, k, j) * u[j]])) - F[k]
        ELSE 0])

\* solve_equations(K, F, U, restraints): K_ff.d_f = F_f - K_fr.U_r, solved
\* by Cramer's rule; LinAlgError when K_ff is not invertible.  exact tells
\* whether the solution is made of whole numbers.
solve_equations(K, F, U, restraints) ==
    LET free == free_dofs(restraints)
        n == Len(free)
        K_ff == array([r \in 1..n |->
                    array([c \in 1..n |-> entry(K, free[r], free[c])])])
        rhs == array([r \in 1..n |->
                  F[free[r]]
                  - SumSeq(array([j \in DOMAIN F |->
                       IF restraints[j] THEN entry(K, free[r], j) * U[j]
                       ELSE 0]))])
        det == Det(K_ff)
        numerators ==
            array([c \in 1..n |->
                Det(array([r \in 1..n |-> array([cc \in 1..n |->
                        IF cc = c THEN rhs[r] ELSE K_ff[r][cc]])]))])
        position(k) == CHOOSE r \in 1..n : free[r] = k
        u == array([k \in DOMAIN F |->
                IF restraints[k] THEN U[k]
                ELSE numerators[position(k)] \div det])
    IN  IF det = 0
        THEN [raised |-> TRUE, exact |-> TRUE, u |-> <<>>, Q |-> <<>>]
        ELSE [raised |-> FALSE,
              exact |-> \A c \in 1..n : numerators[c] % det = 0,
              u |-> u,
              Q |-> reactions(K, F, u, restraints)]

\* one metre, in ticks
Metre == 1000 * Mm

\* pile_internal_forces(model, d): for each element the six end forces
\* (top N, V, M, bottom N, V, M) of its stiffness relation
pile_internal_forces(elements, d) ==
    [k \in 1..(6 * Len(elements)) |->
        LET e == ((k - 1) \div 6) + 1
            c == ((k - 1) % 3) + 1
            top == d[3 * (e - 1) + c]
            bottom == d[3 * e + c]
        IN  IF ((k - 1) % 6) < 3
            THEN ElementStiffness * (top - bottom)
            ELSE ElementStiffness * (bottom - top)]

----------------------------------------------------------------------------
(* openpile.analyze: the result tables *)

\* disp_to_df: one row per node
disp_to_df(nodes, u) ==
    [i \in DOMAIN nodes |->
        [Elevation |-> nodes[i], Settlement |-> u[3 * (i - 1) + 1],
         Deflection |-> u[3 * (i - 1) + 2], Rotation |-> u[3 * (i - 1) + 3]]]

\* structural_forces_to_df: two rows per element (top end, bottom end);
\* the element length L is counted in whole metres
structural_forces_to_df(nodes, q) ==
    [r \in 1..(2 * (Len(nodes) - 1)) |->
        LET e == (r + 1) \div 2
            q0 == q[6 * (e - 1) + 1]
            q1 == q[6 * (e - 1) + 2]
            q2 == q[6 * (e - 1) + 3]
            q3 == q[6 * (e - 1) + 4]
            q4 == q[6 * (e - 1) + 5]
            L == (nodes[e] - nodes[e + 1]) \div Metre
        IN  IF r % 2 = 1
            THEN [Elevation |-> nodes[e], N |-> 0 - q0, V |-> 0 - q1,
                  M |-> 0 - q2]
            ELSE [Elevation |-> nodes[e + 1], N |-> q3, V |-> q4,
                  M |-> (0 - q2) + L * q1]]

\* reaction_forces_to_df: the rows of the nodes with a reaction; a value
\* below 1e-3 is no reaction (whole numbers: the value 0)
reaction_forces_to_df(nodes, Qr) ==
    SelectSeq([i \in DOMAIN nodes |->
                  [Elevation |-> nodes[i], Nr |-> Qr[3 * (i - 1) + 1],
                   Vr |-> Qr[3 * (i - 1) + 2], Mr |-> Qr[3 * (i - 1) + 3]]],
              LAMBDA row : row.Nr # 0 \/ row.Vr # 0 \/ row.Mr # 0)

\* the largest displacement of the table taken for the largest resistance
py_max_of_displacements(curve) == Max(Range(curve.y))

\* py_max: the largest resistance of the curve of one element end (row 0
\* of its table)
py_max(curve) == Max(Range(curve.p))

\* springs_mob_to_df: one row per element end; the mobilised resistance is
\* |displacement| * secant stiffness.  The m-t tables are all-zero.
springs_mob_to_df(nodes, springs, d) ==
    [r \in 1..(2 * (Len(nodes) - 1)) |->
        LET e == (r + 1) \div 2
            node == IF r % 2 = 1 THEN e ELSE e + 1
            u == d[3 * (node - 1) + 2]
            py_ks == spring_stiffness(curve_of(springs[e]), u, "secant")
        IN  [Elevation |-> nodes[node],
             p_mobilized |-> (Abs(u) * py_ks[1]) \div py_ks[2],
             p_max |-> py_max(curve_of(springs[e])),
             m_mobilized |-> 0,
             m_max |-> 0]]

----------------------------------------------------------------------------
(* openpile.analyze.simple_winkler_analysis *)

\* the convergence tolerance 1e-4, inverted
ToleranceInv == 10000

\* the iteration number at which "Not converged" is printed
ReportedIteration == 100

\* the square of np.linalg.norm(v)
norm2(v) == SumSeq(array([k \in DOMAIN v |-> v[k] * v[k]]))

\* v[~supports]: the entries at the free degrees of freedom
unsupported(v, supports) ==
    LET free == free_dofs(supports)
    IN  array([r \in 1..Len(free) |-> v[free[r]]])

\* the external forces taken without the reactions
external_forces_without_reactions(F, Qr) == F

\* F_ext = F - Q
external_forces(F, Qr) == array([k \in DOMAIN F |-> F[k] - Qr[k]])

\* norm(Rg[~supports]) < 1e-4 * norm(F_ext), on the squares
converged(Rg, supports, F_ext) ==
    /\ norm2(F_ext) > 0
    /\ norm2(unsupported(Rg, supports))
          <= (norm2(F_ext) - 1) \div (ToleranceInv * ToleranceInv)

\* the secant matrix kept for the next solve
secant_stiffness_again(nodes, springs, d) ==
    build_stiffness_matrix(nodes, springs, d, "secant")

\* the matrix of the next iteration
next_stiffness(nodes, springs, d) ==
    build_stiffness_matrix(nodes, springs, d, "tangent")

\* the prescribed displacements kept for the next solve
prescribed_kept(U) == U

\* U[:] = 0.0
reset_prescribed(U) == zeros(Len(U))

\* a convergence that is accepted without a second solve
accepted_at_once(met, iter_no) == met

\* convergence is accepted only after a second call to solve_equations
accepted(met, iter_no) == met /\ iter_no > 0

\* the table of the Model if the vector U were a view of it: a write into
\* U is a write into the table
table_written_through(table, U) ==
    [i \in DOMAIN table |->
        [Tx |-> U[3 * (i - 1) + 1], Ty |-> U[3 * (i - 1) + 2],
         Rz |-> U[3 * (i - 1) + 3]]]

\* the global_disp table of the Model after a write into the vector U:
\* mesh_to_global_disp_dof_vector returns an array of its own, the table is
\* not touched
table_after_write(table, U) == table

\* what the function returns when it falls off its end
NoResult == [None |-> TRUE]

\* a loop that goes on whatever the iteration number
budget_never_spent(iter_no, max_iter) == TRUE

\* while iter_no <= max_iter
budget_left(iter_no, max_iter) == iter_no <= max_iter

\* from the entry of the function to the loop
winkler_enter(max_iter) ==
    /\ phase = "created"
    /\ run = "none"
    /\ IF self.soil = <<>>
       THEN \* the UserWarning is built, not raised: the function returns None
            /\ run' = "done"
            /\ results' = <<NoResult>>
            /\ UNCHANGED <<w, solved, stdout>>
       ELSE LET F == mesh_to_global_force_dof_vector(global_forces)
                U == mesh_to_global_disp_dof_vector(global_disp)
                d == zeros(Len(U))
            IN  /\ w' = [fn |-> "simple_winkler_analysis",
                         max_iter |-> max_iter, iter_no |-> 0, F |-> F,
                         U |-> U, d |-> d,
                         K |-> build_stiffness_matrix(nodes_coordinates,
                                   py_springs, d, "initial"),
                         supports |-> mesh_to_global_restrained_dof_vector(
                                          global_restrained),
                         Rg |-> F, u_inc |-> <<>>, Q |-> <<>>,
                         F_ext |-> <<>>, K_secant |-> <<>>]
                /\ run' = "loop"
                /\ UNCHANGED <<solved, stdout, results>>
    /\ UNCHANGED <<phase, error, self, meshVars, springVars, bcVars, callVars,
                   previous>>

\* the test of the while loop and the call of solve_equations.  Displacements
\* are whole numbers here: a run whose solution is not made of whole numbers
\* is outside the inputs explored and is followed no further.
winkler_solve ==
    /\ run = "loop"
    /\ UNCHANGED <<phase, error, self, meshVars, springVars, bcVars,
                   callVars, results, previous>>
    /\ IF ~budget_left(w.iter_no, w.max_iter)
       THEN /\ run' = "after"
            /\ UNCHANGED <<w, solved, stdout>>
       ELSE LET sol == solve_equations(w.K, w.Rg, w.U, w.supports)
                call == [solved EXCEPT !.count = @ + 1,
                            !.iter_no = w.iter_no, !.K = w.K, !.F = w.Rg,
                            !.U = w.U, !.d = w.d, !.tested = FALSE,
                            !.met = FALSE, !.converged = FALSE]
            IN  /\ sol.exact
                /\ IF sol.raised
                   THEN /\ stdout' = Append(stdout, <<"Cannot converge">>)
                        /\ solved' = [call EXCEPT !.raised = TRUE]
                        /\ run' = "after"
                        /\ UNCHANGED w
                   ELSE /\ solved' = [call EXCEPT !.raised = FALSE]
                        /\ w' = [w EXCEPT !.u_inc = sol.u, !.Q = <<sol.Q>>]
                        /\ run' = "solved"
                        /\ UNCHANGED stdout

\* the external forces, the displacements, the secant matrix and the
\* residual forces
winkler_update ==
    /\ run = "solved"
    /\ UNCHANGED <<phase, error, self, meshVars, springVars, bcVars,
                   callVars, results, solved, stdout, previous>>
    /\ LET F_ext == external_forces(w.F, w.Q[1])
           d == array([k \in DOMAIN w.d |-> w.d[k] + w.u_inc[k]])
           K_secant == build_stiffness_matrix(nodes_coordinates, py_springs,
                                              d, "secant")
           K_d == dot(K_secant, d)
       IN  /\ w' = [w EXCEPT !.F_ext = F_ext, !.d = d,
                       !.K_secant = K_secant,
                       !.Rg = array([k \in DOMAIN d |-> F_ext[k] - K_d[k]])]
           /\ run' = "updated"

\* the convergence test and the preparation of the next iteration
winkler_check ==
    /\ run = "updated"
    /\ UNCHANGED <<phase, error, self, meshVars, springVars, global_forces,
                   global_restrained, callVars, results, previous>>
    /\ LET met == converged(w.Rg, w.supports, w.F_ext)
           stop == accepted(met, w.iter_no)
       IN  /\ solved' = [solved EXCEPT !.tested = TRUE, !.met = met,
                            !.met_first = IF w.iter_no = 0 THEN met ELSE @,
                            !.reference = norm2(w.F_ext),
                            !.first_reference =
                                IF w.iter_no = 0 THEN norm2(w.F_ext) ELSE @,
                            !.converged = stop]
           /\ IF stop
              THEN /\ stdout' = Append(stdout, <<"Converged at iteration no.",
                                                 w.iter_no>>)
                   /\ run' = "after"
                   /\ UNCHANGED <<w, global_disp>>
              ELSE /\ stdout' = IF w.iter_no = ReportedIteration
                                THEN Append(stdout, <<"Not converged">>)
                                ELSE stdout
                   /\ w' = [w EXCEPT
                               !.K = next_stiffness(nodes_coordinates,
                                                    py_springs, w.d),
                               !.U = reset_prescribed(w.U),
                               !.iter_no = @ + 1]
                   /\ global_disp' =
                         table_after_write(global_disp, reset_prescribed(w.U))
                   /\ run' = "loop"

\* after the loop: the internal forces and the AnalyzeResult.  Q is not
\* bound when the first solve raised.
winkler_results ==
    /\ run = "after"
    /\ UNCHANGED <<phase, self, meshVars, springVars, bcVars, callVars,
                   w, solved, stdout, previous>>
    /\ IF w.Q = <<>>
       THEN /\ run' = "raised"
            /\ error' = "UnboundLocalError"
            /\ UNCHANGED results
       ELSE LET n == Len(w.d)
                q_int == pile_internal_forces(element_coordinates, w.d)
                base(table, u) ==
                    LET ks == spring_stiffness(curve_of(table[1]), u, "secant")
                    IN  <<(Abs(u) * ks[1]) \div ks[2],
                          Max(Range(curve_of(table[1]).p)
                              \cup Range(curve_of(table[1]).y))>>
            IN  /\ results' =
                     <<[d |-> disp_to_df(nodes_coordinates, w.d),
                        f |-> structural_forces_to_df(nodes_coordinates, q_int),
                        Q |-> reaction_forces_to_df(nodes_coordinates, w.Q[1]),
                        dist_mob |-> springs_mob_to_df(nodes_coordinates,
                                         py_springs, w.d),
                        hb_mob |-> base(Hb_spring, w.d[n - 1]),
                        mb_mob |-> base(Mb_spring, w.d[n])]>>
                /\ run' = "done"
                /\ UNCHANGED error

----------------------------------------------------------------------------
(* openpile.analyze.simple_beam_analysis *)

\* the spring tables of a model seen as a beam: no spring takes part
NoSprings(elements) == [i \in DOMAIN elements |-> "zero"]

\* simple_beam_analysis(model): two solves of the structural system, the
\* second with the matrix rebuilt at the displacements of the first; a
\* LinAlgError of solve_equations goes to the caller
simple_beam_analysis ==
    /\ phase = "created"
    /\ run = "none"
    /\ UNCHANGED <<phase, self, meshVars, springVars, bcVars, callVars,
                   solved, stdout, previous>>
    /\ LET F == mesh_to_global_force_dof_vector(global_forces)
           U == mesh_to_global_disp_dof_vector(global_disp)
           supports == mesh_to_global_restrained_dof_vector(global_restrained)
           springs == NoSprings(element_coordinates)
           K == build_stiffness_matrix(nodes_coordinates, springs,
                                       zeros(Len(U)), "initial")
           first == solve_equations(K, F, U, supports)
       IN  /\ w' = [NoLocals EXCEPT !.fn = "simple_beam_analysis"]
           /\ IF first.raised
              THEN /\ run' = "raised"
                   /\ error' = "LinAlgError"
                   /\ UNCHANGED results
              ELSE /\ first.exact
                   /\ LET again == build_stiffness_matrix(nodes_coordinates,
                                       springs, first.u, "initial")
                          second == solve_equations(again, F, U, supports)
                          q_int == pile_internal_forces(element_coordinates,
                                                        second.u)
                      IN  /\ second.exact
                          /\ results' =
                                <<[d |-> disp_to_df(nodes_coordinates, second.u),
                                   f |-> structural_forces_to_df(
                                             nodes_coordinates, q_int),
                                   Q |-> reaction_forces_to_df(
                                             nodes_coordinates, second.Q),
                                   dist_mob |-> <<>>, hb_mob |-> <<>>,
                                   mb_mob |-> <<>>]>>
                   /\ run' = "done"
                   /\ UNCHANGED error

----------------------------------------------------------------------------
(* Inputs.  Numbers are quarter millimetres: 4 is 1 mm, 160000 is 40 m. *)

Pile(top, lengths) ==
    [top_elevation |-> Q(top),
     lengths |-> [i \in DOMAIN lengths |-> Q(lengths[i])]]

\* a lateral model declaring the p-y mechanism alone, and one declaring
\* the p-y and the m-t mechanisms
PyModel == <<[spring_signature |-> <<TRUE, FALSE, FALSE, FALSE>>]>>

PyMtModel == <<[spring_signature |-> <<TRUE, TRUE, FALSE, FALSE>>]>>

\* a lateral model declaring the four mechanisms: p-y, m-t, base shear and
\* base moment
AllSpringsModel == <<[spring_signature |-> <<TRUE, TRUE, TRUE, TRUE>>]>>

\* a layer of a given unit weight
WeightedLayer(top, bottom, weight, lateral_model) ==
    [top |-> Q(top), bottom |-> Q(bottom), weight |-> weight,
     lateral_model |-> lateral_model]

\* the unit weight of the layers that state none: the lowest whole number
\* the field accepts (weight > 10)
DefaultWeight == 11

Layer(top, bottom, lateral_model) ==
    WeightedLayer(top, bottom, DefaultWeight, lateral_model)

\* a soil profile with its water elevation
SoilProfileWithWater(top, water, layers) ==
    [top_elevation |-> Q(top), water_elevation |-> Q(water), layers |-> layers]

\* a soil profile with the water at the ground level
SoilProfile(top, layers) == SoilProfileWithWater(top, top, layers)

Piles ==
    {Pile(0, <<6>>), Pile(0, <<10>>), Pile(0, <<4, 6>>), Pile(3, <<10>>),
     Pile(3, <<4, 6>>), Pile(0, <<160000>>)}

CandidateProfiles ==
    {SoilProfile(0, <<Layer(0, -10, <<>>)>>),
     SoilProfile(0, <<Layer(0, -6, PyModel)>>),
     SoilProfile(0, <<Layer(0, -4, PyModel), Layer(-4, -12, <<>>)>>),
     SoilProfile(0, <<Layer(-5, -12, PyMtModel), Layer(0, -4, <<>>)>>),
     SoilProfile(0, <<Layer(0, -8, <<>>)>>),
     SoilProfile(4, <<Layer(4, -12, PyModel)>>),
     SoilProfile(-4, <<Layer(-4, -12, PyMtModel)>>),
     SoilProfile(-1, <<Layer(-1, -13, <<>>)>>),
     SoilProfile(-16, <<Layer(-16, -20, <<>>)>>),
     SoilProfile(0, <<Layer(0, -160000, PyModel)>>),
     \* water inside a layer, at a layer boundary, below the pile
     SoilProfileWithWater(0, -2, <<WeightedLayer(0, -10, 18, <<>>)>>),
     SoilProfileWithWater(0, -4, <<WeightedLayer(0, -4, 18, PyModel),
                                   WeightedLayer(-4, -12, 20, <<>>)>>),
     SoilProfileWithWater(0, -20, <<WeightedLayer(0, -10, 18, PyMtModel)>>),
     SoilProfile(0, <<Layer(0, -10, AllSpringsModel)>>),
     \* rejected by the validators of Layer and SoilProfile
     SoilProfile(0, <<Layer(-10, 0, <<>>)>>),
     SoilProfile(4, <<Layer(0, -10, <<>>)>>),
     SoilProfile(0, <<Layer(0, -4, <<>>), Layer(-9, -12, <<>>)>>)}

\* the soil argument: None, or a SoilProfile its validators accept
Soils ==
    {<<>>} \cup
    {<<sp>> : sp \in {c \in CandidateProfiles :
                        /\ \A i \in DOMAIN c.layers : check_elevations(c.layers[i])
                        /\ check_layers_elevations(c)}}

X2Meshes ==
    {<<>>, <<Q(-4)>>, <<Q(-5)>>, <<Q(-4), Q(-5)>>, <<Q(2)>>, <<Q(-1)>>,
     <<Q(-11), Q(-4)>>, <<Q(4)>>}

\* 20000 is the coarseness 5 m of the sample script
Coarsenesses ==
    {Q(0), Q(3), Q(4), Q(5), Q(7), Q(20000), Q(80000), Tick + 1}

DefaultFlags ==
    [distributed_lateral |-> TRUE, distributed_moment |-> FALSE,
     base_shear |-> FALSE, base_moment |-> FALSE]

Flags ==
    {DefaultFlags,
     [distributed_lateral |-> FALSE, distributed_moment |-> TRUE,
      base_shear |-> TRUE, base_moment |-> TRUE]}

----------------------------------------------------------------------------
(* Specification of Model.create over the inputs above *)

ModelCreate ==
    \E pile \in Piles, soil \in Soils, x2mesh \in X2Meshes,
       coarseness \in Coarsenesses, flags \in Flags :
        create(pile, soil, x2mesh, coarseness, flags)

Next == ModelCreate

Spec == Init /\ [][Next]_vars

----------------------------------------------------------------------------
(* Specification of the boundary-condition setters on three meshes:     *)
(* nodes at 0, -20 m, -40 m; nodes 1 mm apart; a mesh with two nodes     *)
(* that the rounding of the tables makes equal.                          *)

None == <<>>

Some(v) == <<v>>

LoadArgs ==
    {[Px |-> Some(1), Py |-> None, Mz |-> None],
     [Px |-> Some(2), Py |-> None, Mz |-> None],
     [Px |-> None, Py |-> Some(1), Mz |-> Some(0 - 2)]}

DispArgs ==
    {[Tx |-> None, Ty |-> Some(1), Rz |-> None],
     [Tx |-> None, Ty |-> Some(0 - 1), Rz |-> None],
     [Tx |-> Some(0), Ty |-> None, Rz |-> Some(1)]}

SupportArgs ==
    {[Tx |-> TRUE, Ty |-> TRUE, Rz |-> FALSE],
     [Tx |-> FALSE, Ty |-> TRUE, Rz |-> FALSE],
     [Tx |-> FALSE, Ty |-> FALSE, Rz |-> FALSE]}

\* elevations tried: the top node, 2 mm above it, 0.5 mm above the second
\* node, 2 mm below the second node, the bottom node, 1.25 mm below it
Elevations ==
    LET n == nodes_coordinates
        N == Len(n)
    IN  {n[1], n[1] + 2 * Mm, n[2] + 2 * Tick, n[2] - 2 * Mm,
         n[N], n[N] - (Mm + Tick)}

CreateCase ==
    \/ create(Pile(0, <<160000>>),
              <<SoilProfile(0, <<Layer(0, -160000, PyModel)>>)>>,
              <<>>, Q(80000), DefaultFlags)
    \/ create(Pile(0, <<8>>), <<SoilProfile(0, <<Layer(0, -8, PyModel)>>)>>,
              <<>>, Q(4), DefaultFlags)
    \/ create(Pile(0, <<40>>), <<SoilProfile(0, <<Layer(0, -40, PyModel)>>)>>,
              <<Q(-4), Q(-5)>>, Q(20), DefaultFlags)

SetPointLoad ==
    /\ phase = "created"
    /\ \E elevation \in Elevations, args \in LoadArgs :
          set_pointload(elevation, args)

SetPointDisplacement ==
    /\ phase = "created"
    /\ \E elevation \in Elevations, args \in DispArgs :
          set_pointdisplacement(elevation, args)

SetSupport ==
    /\ phase = "created"
    /\ \E elevation \in Elevations, args \in SupportArgs :
          set_support(elevation, args)

NextBC == CreateCase \/ SetPointLoad \/ SetPointDisplacement \/ SetSupport

SpecBC == Init /\ [][NextBC]_vars

----------------------------------------------------------------------------
(* Specification of simple_winkler_analysis: a pile of 40 m in one layer  *)
(* with p-y springs, meshed in one element (coarseness 40 m).  As in the  *)
(* sample script the caller declares the supports first and the loads     *)
(* last, at elevations of nodes.                                          *)

\* max_iter when the caller passes none
DefaultMaxIter == 100

MaxIters == (0..MaxIter) \cup {DefaultMaxIter}

WinklerSupportArgs ==
    {[Tx |-> TRUE, Ty |-> FALSE, Rz |-> TRUE],
     [Tx |-> FALSE, Ty |-> TRUE, Rz |-> FALSE],
     [Tx |-> TRUE, Ty |-> TRUE, Rz |-> TRUE]}

WinklerDispArgs ==
    {[Tx |-> None, Ty |-> Some(4), Rz |-> None]}

WinklerLoadArgs ==
    {[Px |-> None, Py |-> Some(4), Mz |-> None],
     [Px |-> None, Py |-> Some(8), Mz |-> None],
     [Px |-> None, Py |-> Some(15), Mz |-> None],
     [Px |-> Some(2), Py |-> None, Mz |-> None]}

CreateAnalysed ==
    create(Pile(0, <<160000>>),
           <<SoilProfile(0, <<Layer(0, -160000, PyModel)>>)>>,
           <<>>, Q(160000), DefaultFlags)

DeclareSupport ==
    /\ phase = "created"
    /\ run = "none"
    /\ previous = <<>>
    /\ ncalls < 2
    /\ \E elevation \in NodeElevations, args \in WinklerSupportArgs :
          set_support(elevation, args)

DeclareDisplacement ==
    /\ phase = "created"
    /\ run = "none"
    /\ previous = <<>>
    /\ ncalls = 1
    /\ \E elevation \in NodeElevations, args \in WinklerDispArgs :
          set_pointdisplacement(elevation, args)

DeclareLoad ==
    /\ phase = "created"
    /\ run = "none"
    /\ previous = <<>>
    /\ ncalls >= 2
    /\ \E elevation \in NodeElevations, args \in WinklerLoadArgs :
          set_pointload(elevation, args)

\* a call, or the same call once more
WinklerEnter ==
    \E max_iter \in MaxIters :
        /\ previous # <<>> =>
              /\ previous[1].fn = "simple_winkler_analysis"
              /\ max_iter = previous[1].max_iter
        /\ winkler_enter(max_iter)

\* a call of the beam analysis, or the same call once more
BeamAnalysis ==
    /\ previous # <<>> => previous[1].fn = "simple_beam_analysis"
    /\ simple_beam_analysis

\* the caller keeps the result and is ready to call the analysis again
call_again ==
    /\ run = "done"
    /\ results # <<>>
    /\ previous = <<>>
    /\ previous' = <<[fn |-> w.fn, max_iter |-> w.max_iter,
                      tables |-> [forces |-> global_forces,
                                  disp |-> global_disp,
                                  restrained |-> global_restrained],
                      results |-> results[1]]>>
    /\ run' = "none"
    /\ w' = NoLocals
    /\ solved' = NoSolve
    /\ stdout' = <<>>
    /\ results' = <<>>
    /\ UNCHANGED <<phase, error, self, meshVars, springVars, bcVars, callVars>>

NextW ==
    \/ CreateAnalysed
    \/ DeclareSupport
    \/ DeclareDisplacement
    \/ DeclareLoad
    \/ WinklerEnter
    \/ winkler_solve
    \/ winkler_update
    \/ winkler_check
    \/ winkler_results
    \/ BeamAnalysis
    \/ call_again

SpecW == Init /\ [][NextW]_vars

----------------------------------------------------------------------------
(* Properties of the mesh (Spec) *)

Created == phase = "created"

PileTip == self.pile.top_elevation - SumSeq(self.pile.lengths)

\* the boundaries of the pile sections
SectionBoundaries ==
    {self.pile.top_elevation - SumSeq(SubSeq(self.pile.lengths, 1, k)) :
        k \in 0..Len(self.pile.lengths)}

\* the tops and bottoms of the soil layers at or above the pile tip
LayerBoundaries ==
    IF self.soil = <<>> THEN {}
    ELSE {e \in UNION {{self.soil[1].layers[i].top, self.soil[1].layers[i].bottom} :
                          i \in DOMAIN self.soil[1].layers} : e >= PileTip}

\* every elevation the caller asked to be meshed
RequestedElevations ==
    SectionBoundaries \cup LayerBoundaries \cup Range(self.x2mesh)


\* C1 as stated: after construction every pile-section boundary, every
\* soil-layer top or bottom at or above the pile tip and every x2mesh
\* elevation is the elevation of a node of nodes_coordinates.
C1_RequestedAreNodes ==
    Created => \A e \in RequestedElevations : e \in NodeElevations

\* C1 amended: after construction every such elevation is within half a
\* millimetre of the elevation of a node of nodes_coordinates (the table is
\* rounded to 3 decimals), and is itself a node elevation when it is a whole
\* number of millimetres.
C1_RequestedAreNodesRounded ==
    Created =>
        \A e \in RequestedElevations :
            /\ \E n \in NodeElevations : 2 * Abs(n - e) <= Mm
            /\ e % Mm = 0 => e \in NodeElevations

\* a model with two pile sections, a soil layer ending below the pile tip,
\* an x2mesh elevation that is not a whole number of millimetres
C1_Witness ==
    /\ Created
    /\ Len(self.pile.lengths) = 2
    /\ \E i \in DOMAIN self.soil[1].layers : self.soil[1].layers[i].bottom < PileTip
    /\ \E i \in DOMAIN self.x2mesh : self.x2mesh[i] % Mm # 0

\* C2 (refuted by the code): the node elevations of nodes_coordinates are
\* strictly decreasing and every element of element_coordinates has
\* x_top - x_bottom > 0.
C2_StrictlyDecreasing ==
    Created =>
        /\ \A i \in 1..(Len(nodes_coordinates) - 1) :
              nodes_coordinates[i] > nodes_coordinates[i + 1]
        /\ \A i \in DOMAIN element_coordinates :
              element_coordinates[i].x_top - element_coordinates[i].x_bottom > 0

IndexOf(e) == CHOOSE i \in DOMAIN x : x[i] = e

\* consecutive requested elevations
Consecutive(a, b) ==
    /\ a \in RequestedElevations
    /\ b \in RequestedElevations
    /\ a > b
    /\ \A e \in RequestedElevations : ~(a > e /\ e > b)

Ceil(s, c) == (s + c - 1) \div c

\* C4 as stated: between two consecutive requested elevations of span s the
\* stored mesh has exactly ceil(s / coarseness) elements, each of length
\* s / ceil(s / coarseness).
C4_StoredEqualSubspans ==
    Created =>
        \A a, b \in RequestedElevations :
            Consecutive(a, b) =>
                LET d == Ceil(a - b, self.coarseness)
                IN  /\ IndexOf(b) - IndexOf(a) = d
                    /\ \A k \in IndexOf(a)..(IndexOf(b) - 1) :
                          d * (element_coordinates[k].x_top
                               - element_coordinates[k].x_bottom) = a - b

\* C4 amended: between two consecutive requested elevations of span s the
\* coordinates computed by get_coordinates, before the tables are rounded
\* to 3 decimals, form exactly ceil(s / coarseness) intervals (1 when
\* s <= coarseness, no secondary node), each of length
\* s / ceil(s / coarseness).
C4_EqualSubspans ==
    Created =>
        \A a, b \in RequestedElevations :
            Consecutive(a, b) =>
                LET d == Ceil(a - b, self.coarseness)
                IN  /\ IndexOf(b) - IndexOf(a) = d
                    /\ a - b <= self.coarseness => d = 1
                    /\ \A k \in IndexOf(a)..(IndexOf(b) - 1) :
                          d * (x[k] - x[k + 1]) = a - b

\* one interval is cut in three or more parts and another one, not longer
\* than the coarseness, is left whole
C4_Witness ==
    /\ Created
    /\ \E a, b \in RequestedElevations :
          Consecutive(a, b) /\ IndexOf(b) - IndexOf(a) >= 3
    /\ \E a, b \in RequestedElevations :
          Consecutive(a, b) /\ a - b <= self.coarseness
                            /\ IndexOf(b) = IndexOf(a) + 1

NothingBuilt ==
    /\ x = <<>>
    /\ nodes_coordinates = <<>>
    /\ element_coordinates = <<>>
    /\ py_springs = <<>> /\ mt_springs = <<>>
    /\ Hb_spring = <<>> /\ Mb_spring = <<>>
    /\ global_forces = <<>> /\ global_disp = <<>> /\ global_restrained = <<>>

\* C5 (refuted by the code): Model.create called with soil = None succeeds
\* and yields the node and element tables and zero-initialised force,
\* displacement and restraint tables.
C5_SoilOptional ==
    (phase # "new" /\ self.soil = <<>> /\ self.coarseness > 0) =>
        /\ Created
        /\ Len(nodes_coordinates) >= 2
        /\ Len(element_coordinates) = Len(nodes_coordinates) - 1
        /\ \A i \in DOMAIN nodes_coordinates :
              /\ global_forces[i] = [Px |-> 0, Py |-> 0, Mz |-> 0]
              /\ global_disp[i] = [Tx |-> 0, Ty |-> 0, Rz |-> 0]
              /\ global_restrained[i] = [Tx |-> FALSE, Ty |-> FALSE, Rz |-> FALSE]

\* C6: when the pile tip is deeper than the bottom elevation of the soil
\* profile, Model.create fails with the validator's UserWarning and no node,
\* element, spring or boundary-condition table has been built.
C6_DeepPileRejected ==
    (/\ phase # "new"
     /\ self.soil # <<>>
     /\ PileTip < soil_bottom_elevation(self.soil[1])) =>
        /\ phase = "failed"
        /\ error = "UserWarning"
        /\ NothingBuilt

\* Model.create has been called with a pile ending below the soil profile
C6_Witness ==
    /\ phase = "failed"
    /\ error = "UserWarning"
    /\ self.soil # <<>>
    /\ PileTip < Min({self.soil[1].layers[i].bottom : i \in DOMAIN self.soil[1].layers})

----------------------------------------------------------------------------
(* Properties of the boundary-condition setters (SpecBC) *)

SetterCalled == lastCall.op # "none"

Tables ==
    [forces |-> global_forces, disp |-> global_disp,
     restrained |-> global_restrained]

\* the nodes within 1 mm of the elevation of the latest call
NodesWithin1mm ==
    {i \in DOMAIN nodes_coordinates :
        Abs(nodes_coordinates[i] - lastCall.elevation) <= Mm}

\* the latest call changed no row other than row i of the three tables
OnlyRowChanged(i) ==
    \A j \in DOMAIN nodes_coordinates :
        j # i => /\ global_forces[j] = before.forces[j]
                 /\ global_disp[j] = before.disp[j]
                 /\ global_restrained[j] = before.restrained[j]

\* C7 (refuted by the code): a setter called with an elevation that is not
\* within 1 mm of any node leaves the three boundary-condition tables
\* unchanged and is rejected; called within 1 mm of a node, it is applied to
\* that node and changes the row of that node only.
C7_OneMillimetre ==
    SetterCalled =>
        /\ NodesWithin1mm = {} =>
              lastCall.outcome = "rejected" /\ Tables = before
        /\ NodesWithin1mm # {} =>
              /\ lastCall.outcome = "applied"
              /\ lastCall.node \in NodesWithin1mm
              /\ OnlyRowChanged(lastCall.node)

\* C8: a setter that finds no node for the elevation prints exactly one
\* message: "outside the mesh" if and only if the elevation is above the
\* top node or below the bottom node, "not meshed as a node" if and only if
\* it lies between them.
C8_Diagnostic ==
    (SetterCalled /\ lastCall.outcome = "rejected") =>
        LET e == lastCall.elevation
            outside == e > Max(NodeElevations) \/ e < Min(NodeElevations)
        IN  /\ Len(lastCall.printed) = 1
            /\ lastCall.printed[1] = "outside the mesh" <=> outside
            /\ lastCall.printed[1] = "not meshed as a node" <=> ~outside

\* a call between two nodes has been rejected as not meshed, after a call
\* that was applied
C8_Witness ==
    /\ ncalls = 2
    /\ lastCall.outcome = "rejected"
    /\ lastCall.printed = <<"not meshed as a node">>
    /\ lastCall.elevation < Max(NodeElevations)
    /\ lastCall.elevation > Min(NodeElevations)
    /\ Tables = before
    /\ before # [forces |-> zero_forces(nodes_coordinates),
                 disp |-> zero_disp(nodes_coordinates),
                 restrained |-> zero_restrained(nodes_coordinates)]

\* C9: after a set_pointload call applied to a node, every load component
\* the call passed holds the value passed, whatever value the component
\* held before (the second of two calls at one node leaves v2, not v1 + v2).
C9_LastLoadWins ==
    (lastCall.op = "set_pointload" /\ lastCall.outcome = "applied") =>
        LET row == global_forces[lastCall.node]
            args == lastCall.args
        IN  /\ args.Px # <<>> => row.Px = args.Px[1]
            /\ args.Py # <<>> => row.Py = args.Py[1]
            /\ args.Mz # <<>> => row.Mz = args.Mz[1]

\* a node that held Px = 1 has been given Px = 2 and holds 2, while another
\* node carries the load of a call made at its own elevation
C9_Witness ==
    /\ ncalls = 3
    /\ \E j \in DOMAIN nodes_coordinates :
          j # lastCall.node /\ global_forces[j] # zero_forces(nodes_coordinates)[j]
    /\ lastCall.op = "set_pointload"
    /\ lastCall.outcome = "applied"
    /\ lastCall.elevation = nodes_coordinates[lastCall.node]
    /\ lastCall.args.Px = <<2>>
    /\ before.forces[lastCall.node].Px = 1
    /\ global_forces[lastCall.node].Px = 2

\* C10: after a set_support call applied to a node, the three restraint
\* flags of the node are the three arguments of the call; a flag the call
\* did not pass (False by default) is False even if it was True before.
C10_LastSupportWins ==
    (lastCall.op = "set_support" /\ lastCall.outcome = "applied") =>
        LET row == global_restrained[lastCall.node]
            args == lastCall.args
        IN  /\ row.Tx = args.Tx
            /\ row.Ty = args.Ty
            /\ row.Rz = args.Rz

\* a node restrained in Tx and Ty by one set_support call has been given
\* Ty alone by the next one, and Tx is free again; another node keeps the
\* support of a call made at its own elevation
C10_Witness ==
    /\ ncalls = 3
    /\ \E j \in DOMAIN nodes_coordinates :
          j # lastCall.node
          /\ global_restrained[j] # zero_restrained(nodes_coordinates)[j]
    /\ lastCall.op = "set_support"
    /\ lastCall.outcome = "applied"
    /\ lastCall.elevation = nodes_coordinates[lastCall.node]
    /\ before.restrained[lastCall.node] = [Tx |-> TRUE, Ty |-> TRUE, Rz |-> FALSE]
    /\ lastCall.args = [Tx |-> FALSE, Ty |-> TRUE, Rz |-> FALSE]
    /\ global_restrained[lastCall.node] = [Tx |-> FALSE, Ty |-> TRUE, Rz |-> FALSE]

----------------------------------------------------------------------------
(* The sample script: a pile of 40 m, top elevation 0, coarseness 5 m *)

\* Model.create has been called as the sample script calls create_mesh
SampleCall ==
    /\ phase # "new"
    /\ self.pile = Pile(0, <<160000>>)
    /\ self.coarseness = Q(20000)
    /\ self.x2mesh = <<>>
    /\ LayerBoundaries \subseteq SectionBoundaries

\* the elevations T - k*c for k = 0..L/c of the sample: 0, -5, ..., -40 m
SampleNodes == [k \in 1..9 |-> 0 - (k - 1) * Q(20000)]

\* C11 (refuted by the code, through C5): for the pile of the sample, no
\* x2mesh and no soil elevation other than the ends of the pile, Model.create
\* yields the nodes 0, -5, ..., -40 m, with boundary-condition tables that
\* are zero/False until the setters are called.
C11_SampleMesh ==
    SampleCall =>
        /\ phase = "created"
        /\ nodes_coordinates = SampleNodes
        /\ global_forces = zero_forces(SampleNodes)
        /\ global_disp = zero_disp(SampleNodes)
        /\ global_restrained = zero_restrained(SampleNodes)

\* the same with a soil profile: the mesh of the sample is built
C11_SampleMeshWithSoil ==
    (SampleCall /\ self.soil # <<>>) =>
        /\ phase = "created"
        /\ nodes_coordinates = SampleNodes

----------------------------------------------------------------------------
(* Properties of simple_winkler_analysis (SpecW) *)

Returned == run = "done" /\ results # <<NoResult>>

InLoop == run \in {"loop", "solved", "updated"}

ConvergedPrinted ==
    \E i \in DOMAIN stdout :
        Len(stdout[i]) = 2 /\ stdout[i][1] = "Converged at iteration no."

C13_AtMostMaxIterSolves == solved.count <= w.max_iter

\* what is left of the loop: passes still allowed, and steps of this pass
Variant ==
    3 * (w.max_iter + 1 - w.iter_no)
    + (CASE run = "loop" -> 3 [] run = "solved" -> 2
         [] run = "updated" -> 1 [] OTHER -> 0)

\* C13, amended: every step of the loop decreases Variant, which is never
\* negative, so the loop ends; the number of solve_equations calls never
\* exceeds max_iter + 1.
C13_LoopEnds ==
    [][InLoop => /\ Variant' < Variant
                 /\ Variant' >= 0
                 /\ solved'.count <= w'.max_iter + 1]_vars

\* the budget has been used in full: max_iter + 1 solves, no convergence
C13_Witness ==
    /\ run = "done"
    /\ w.max_iter >= 1
    /\ solved.count = w.max_iter + 1
    /\ ~solved.converged
    /\ ~solved.raised

\* the loop ended on its while condition: every allowed iteration was run,
\* none was accepted as converged and no solve failed
Exhausted ==
    /\ Returned
    /\ solved.count = w.max_iter + 1
    /\ ~solved.converged
    /\ ~solved.raised

NotConvergedPrinted ==
    \E i \in DOMAIN stdout : stdout[i] = <<"Not converged">>

\* C14 as stated (refuted): a result returned after the budget is exhausted
\* is flagged as not converged, by a field of the result or at least by the
\* printed diagnostic.
C14_ExhaustedIsFlagged ==
    Exhausted => \/ "converged" \in DOMAIN results[1]
                 \/ NotConvergedPrinted

\* C15 as stated (refuted): after a singular-matrix error of the solve the
\* analysis returns no result (no partial displacements) and ends with the
\* failure reported.
C15_SingularAborts ==
    solved.raised =>
        /\ run # "done"
        /\ results = <<>>
        /\ (run = "raised" => error = "LinAlgError")

\* C16 as stated (refuted): the reference of the convergence test is the
\* norm of the external force measured at the first iteration, fixed once.
C16_ReferenceFixedOnce ==
    solved.tested => solved.reference = solved.first_reference

\* the bound of the test for a squared reference: the squared residual norm
\* passes when it is below 1e-8 times the squared reference
Allowed(reference) == (reference - 1) \div (ToleranceInv * ToleranceInv)

\* the squared norm of F - Q, with the reactions Q of the latest solve
NormOfForcesLessReactions ==
    SumSeq(array([k \in DOMAIN w.F |->
                     (w.F[k] - w.Q[1][k]) * (w.F[k] - w.Q[1][k])]))

\* C16, amended: at every iteration the test compares the norm of the
\* residual on the free degrees of freedom against 1e-4 times the norm of
\* F - Q, Q being the reactions of the solve of that same iteration.
C16_ReferenceOfThisIteration ==
    solved.tested =>
        /\ solved.reference = NormOfForcesLessReactions
        /\ solved.met <=>
              /\ solved.reference > 0
              /\ norm2(unsupported(w.Rg, w.supports))
                    <= Allowed(solved.reference)

\* a test at an iteration >= 1 whose reference differs from the one of the
\* first iteration, and which is met
C16_Witness ==
    /\ solved.tested
    /\ solved.iter_no >= 1
    /\ solved.reference # solved.first_reference
    /\ solved.first_reference > 0
    /\ solved.met

\* no load and no prescribed displacement was declared
ZeroInput ==
    /\ \A i \in DOMAIN global_forces :
          global_forces[i] = [Px |-> 0, Py |-> 0, Mz |-> 0]
    /\ \A i \in DOMAIN global_disp :
          global_disp[i] = [Tx |-> 0, Ty |-> 0, Rz |-> 0]

AllZeroResult ==
    /\ \A i \in DOMAIN results[1].d :
          /\ results[1].d[i].Settlement = 0
          /\ results[1].d[i].Deflection = 0
          /\ results[1].d[i].Rotation = 0
    /\ \A i \in DOMAIN results[1].f :
          /\ results[1].f[i].N = 0
          /\ results[1].f[i].V = 0
          /\ results[1].f[i].M = 0

\* C17 as stated (refuted): with zero loads and zero prescribed
\* displacements the analysis ends either with an all-zero result or with
\* the singular-system failure, never with another error.
C17_ZeroInput ==
    (ZeroInput /\ run \in {"done", "raised"}) =>
        \/ Returned /\ AllZeroResult
        \/ run = "raised" /\ error = "LinAlgError"

\* C18: in a returned result, every row of the spring-mobilisation table
\* reports a mobilised p-y resistance that is at most the reported maximum
\* of that row, whatever the displacement.
C18_MobilisedWithinMax ==
    Returned =>
        \A r \in DOMAIN results[1].dist_mob :
            /\ results[1].dist_mob[r].p_mobilized >= 0
            /\ results[1].dist_mob[r].p_mobilized
                  <= results[1].dist_mob[r].p_max

\* the last tabulated displacement of the curve
LastTabulated == PyCurve.y[Len(PyCurve.y)]

\* a returned result with a node displaced beyond the last tabulated point
\* of its curve, whose mobilised resistance is the maximum of the curve
C18_Witness ==
    /\ Returned
    /\ \E r \in DOMAIN results[1].dist_mob :
       \E i \in DOMAIN results[1].d :
          /\ results[1].d[i].Elevation = results[1].dist_mob[r].Elevation
          /\ Abs(results[1].d[i].Deflection) > LastTabulated
          /\ results[1].dist_mob[r].p_max > 0
          /\ results[1].dist_mob[r].p_mobilized
                = results[1].dist_mob[r].p_max

NoDisplacement == zeros(3 * Len(nodes_coordinates))

\* the residual forces as the loop defines them: (F - Q) - K_secant . d
ResidualOf(F, Qr, K_secant, d) ==
    LET K_d == dot(K_secant, d)
    IN  array([k \in DOMAIN d |-> (F[k] - Qr[k]) - K_d[k]])

\* C19: the solve of iteration 0 takes the initial matrix built at d = 0
\* and the forces F; the solve of an iteration >= 1 takes the tangent
\* matrix built at the displacement accumulated before it; no solve takes a
\* secant matrix.  After a solve come, in this order, the accumulation of
\* d, the secant matrix at the new d and Rg = (F - Q) - K_secant . d, then
\* the test, then the tangent matrix at the new d.
C19_StepOrdering ==
    /\ solved.count >= 1 =>
          /\ solved.K.kind # "secant"
          /\ solved.iter_no = 0 =>
                /\ solved.d = NoDisplacement
                /\ solved.K = build_stiffness_matrix(nodes_coordinates,
                                  py_springs, NoDisplacement, "initial")
                /\ solved.F = w.F
          /\ solved.iter_no >= 1 =>
                solved.K = build_stiffness_matrix(nodes_coordinates,
                               py_springs, solved.d, "tangent")
    /\ run = "updated" =>
          /\ ~solved.tested
          /\ w.K = solved.K
          /\ w.d = [k \in DOMAIN w.d |-> solved.d[k] + w.u_inc[k]]
          /\ w.K_secant = build_stiffness_matrix(nodes_coordinates,
                              py_springs, w.d, "secant")
          /\ w.Rg = ResidualOf(w.F, w.Q[1], w.K_secant, w.d)
    /\ (run = "loop" /\ solved.tested) =>
          /\ w.iter_no = solved.iter_no + 1
          /\ w.K = build_stiffness_matrix(nodes_coordinates, py_springs,
                                          w.d, "tangent")

\* a second iteration that starts from a nonzero displacement and moves on
C19_Witness ==
    /\ run = "updated"
    /\ solved.iter_no >= 1
    /\ solved.d # NoDisplacement
    /\ w.u_inc # NoDisplacement

\* the prescribed displacements the user declared
Prescribed == mesh_to_global_disp_dof_vector(global_disp)

\* C20: the solve of iteration 0 takes the prescribed displacements of the
\* user, the solve of every iteration >= 1 takes an all-zero U; from the
\* first solve on, the accumulated displacement of a restrained degree of
\* freedom stays at its prescribed value.
C20_PrescribedOnlyAtFirst ==
    /\ solved.count >= 1 =>
          /\ solved.iter_no = 0 => solved.U = Prescribed
          /\ solved.iter_no >= 1 => solved.U = NoDisplacement
    /\ (run = "solved" /\ solved.iter_no >= 1) =>
          \A k \in DOMAIN w.u_inc : w.supports[k] => w.u_inc[k] = 0
    /\ (run = "updated" \/ solved.tested \/ solved.iter_no >= 1) =>
          \A k \in DOMAIN w.d : w.supports[k] => w.d[k] = Prescribed[k]

\* a displacement-driven run in its second iteration: the prescribed value
\* is in d, and the second solve moved a free degree of freedom only
C20_Witness ==
    /\ run = "updated"
    /\ solved.iter_no >= 1
    /\ \E k \in DOMAIN w.d :
          /\ Prescribed[k] # 0
          /\ w.d[k] = Prescribed[k]
          /\ w.u_inc[k] = 0
    /\ w.u_inc # NoDisplacement

----------------------------------------------------------------------------
(* Properties of the element and soil tables (Spec) *)

\* the integral of the unit weight of the soil from the ground surface down
\* to the elevation e, the weight being less by the buoyant correction at
\* every depth below the water elevation
StressIntegral(soil, e) ==
    SumSeq(array([j \in DOMAIN soil.layers |->
        LET layer == soil.layers[j]
            lo == Max({layer.bottom, e})
            hi == layer.top
            wet == Max({0, Min({hi, soil.water_elevation}) - lo})
        IN  IF hi <= lo THEN 0
            ELSE ((hi - lo) - wet) * layer.weight
                 + wet * (layer.weight - BuoyantCorrection)]))

\* C21 as stated (refuted): at every element end at or below the ground
\* surface the stored vertical effective stress is the integral of the
\* (buoyant below water) unit weight from the ground surface to that end.
C21_StressIsIntegral ==
    Created =>
        \A i \in DOMAIN soil_properties :
            soil_properties[i].x_top <= self.soil[1].top_elevation =>
                /\ soil_properties[i].sigma_v_top
                      = Float(StressIntegral(self.soil[1],
                                             soil_properties[i].x_top))
                /\ soil_properties[i].sigma_v_bottom
                      = Float(StressIntegral(self.soil[1],
                                             soil_properties[i].x_bottom))

\* the pile section whose elevation span contains an element with the top
\* x_top: the section k with top(k) >= x_top > bottom(k), 0 if none
SectionHolding(pile, x_top) ==
    LET data == pile_data(pile)
        holding == {k \in DOMAIN pile.lengths :
                       /\ data[2 * k - 1].Elevation >= x_top
                       /\ x_top > data[2 * k].Elevation}
    IN  IF holding = {} THEN 0 ELSE CHOOSE k \in holding : TRUE

\* C22 as stated (refuted): every element holds the values (diameter, wall
\* thickness, area, second moment of area) of the pile section whose span
\* contains it; an element whose top is the boundary between two sections
\* holds those of the lower one.
C22_SectionOfElement ==
    \A i \in DOMAIN element_properties :
        element_properties[i]
            = SectionHolding(self.pile, element_coordinates[i].x_top)

----------------------------------------------------------------------------
(* Properties of the spring tables (Spec) *)

\* the layers whose span holds element i
LayersHolding(i) ==
    {j \in DOMAIN self.soil[1].layers :
        /\ element_coordinates[i].x_top <= self.soil[1].layers[j].top
        /\ element_coordinates[i].x_bottom >= self.soil[1].layers[j].bottom}

\* a layer holding element i has a lateral model that declares mechanism k
Declared(i, k) ==
    \E j \in LayersHolding(i) :
        /\ self.soil[1].layers[j].lateral_model # <<>>
        /\ self.soil[1].layers[j].lateral_model[1].spring_signature[k]

PySpringsAsDeclared ==
    \A i \in DOMAIN py_springs :
        py_springs[i] = "curve" <=> Declared(i, 1) /\ self.distributed_lateral

MtSpringsAsDeclared ==
    \A i \in DOMAIN mt_springs :
        mt_springs[i] = "curve" <=> Declared(i, 2) /\ self.distributed_moment

\* C23 as stated (refuted): the table of a mechanism is populated exactly
\* when the governing layer declares the mechanism and the flag of the
\* Model for it is True: p-y and m-t for every element, base shear and base
\* moment for the element at the pile tip.
C23_PopulatedWhenDeclared ==
    Created =>
        /\ PySpringsAsDeclared
        /\ MtSpringsAsDeclared
        /\ Hb_spring[1] = "curve" <=>
              Declared(Len(element_coordinates), 3) /\ self.base_shear
        /\ Mb_spring[1] = "curve" <=>
              Declared(Len(element_coordinates), 4) /\ self.base_moment

----------------------------------------------------------------------------
(* Properties of repeated analyses (SpecW) *)

\* the same call as the one before, on the same boundary-condition tables
SameCallAsBefore ==
    /\ run = "done"
    /\ previous # <<>>
    /\ previous[1].fn = w.fn
    /\ previous[1].max_iter = w.max_iter
    /\ previous[1].tables = Tables

----------------------------------------------------------------------------
(* Properties of the boundary-condition tables (SpecBC) *)

\* C25 as stated (refuted): every degree of freedom whose prescribed
\* displacement in global_disp is not zero is restrained in
\* global_restrained.
C25_PrescribedIsRestrained ==
    \A i \in DOMAIN global_disp :
        /\ global_disp[i].Tx # 0 => global_restrained[i].Tx
        /\ global_disp[i].Ty # 0 => global_restrained[i].Ty
        /\ global_disp[i].Rz # 0 => global_restrained[i].Rz

\* C26: a set_pointload call changes nothing but the load components it
\* passes (not None) at the node it is applied to: the other components of
\* that node, the loads of all other nodes, global_disp and
\* global_restrained are as before the call.
C26_OnlyGivenLoadsChange ==
    lastCall.op = "set_pointload" =>
        /\ global_disp = before.disp
        /\ global_restrained = before.restrained
        /\ \A j \in DOMAIN global_forces :
              j # lastCall.node => global_forces[j] = before.forces[j]
        /\ lastCall.outcome = "applied" =>
              LET row == global_forces[lastCall.node]
                  old == before.forces[lastCall.node]
                  args == lastCall.args
              IN  /\ args.Px = <<>> => row.Px = old.Px
                  /\ args.Py = <<>> => row.Py = old.Py
                  /\ args.Mz = <<>> => row.Mz = old.Mz

\* a node that carried Px = 1 and a prescribed displacement has been given
\* Py and Mz by a further call, and carries the three loads
C26_Witness ==
    /\ ncalls = 3
    /\ lastCall.op = "set_pointload"
    /\ lastCall.outcome = "applied"
    /\ lastCall.args.Px = <<>>
    /\ before.forces[lastCall.node] = [Px |-> 1, Py |-> 0, Mz |-> 0]
    /\ global_forces[lastCall.node] = [Px |-> 1, Py |-> 1, Mz |-> 0 - 2]
    /\ global_disp[lastCall.node].Ty # 0

----------------------------------------------------------------------------
(* Properties of the mesh, continued (Spec) *)

\* C27 as stated (refuted): for every coarseness, coarseness <= 0
\* included, the subdivision loop of get_coordinates ends: no call of
\* Model.create stays in the loop.
C27_MeshingEnds == phase # "looping"

\* C28 as stated (refuted): in a created Model the first node is at the
\* pile top, the last node at the pile bottom, and no node is above the
\* pile top or below the pile bottom, so that every element has the
\* properties of a pile section.
C28_NodesOnThePile ==
    phase = "created" =>
        LET top == self.pile.top_elevation
            bottom == pile_bottom_elevation(self.pile)
            n == nodes_coordinates
        IN  /\ n[1] = top
            /\ n[Len(n)] = bottom
            /\ \A i \in DOMAIN n : n[i] <= top /\ n[i] >= bottom
            /\ \A e \in DOMAIN element_properties :
                  element_properties[e] # 0

----------------------------------------------------------------------------
(* Properties of simple_winkler_analysis, continued (SpecW) *)

\* C29 as stated (refuted): when the convergence test of an iteration
\* i >= 1 finds residual forces that are exactly zero on the free degrees
\* of freedom, the loop declares convergence at that iteration, also when
\* the norm of the external forces is zero.
C29_ZeroResidualConverges ==
    (/\ solved.tested
     /\ solved.iter_no >= 1
     /\ norm2(unsupported(w.Rg, w.supports)) = 0) => solved.converged

\* the function has returned after a run in which convergence was accepted
ConvergedRun == Returned /\ solved.converged

\* C30 as stated (refuted): whatever max_iter, "Not converged" is printed
\* if and only if the loop ends with its budget of iterations exhausted and
\* no convergence, and never in a run that converges.
C30_NotConvergedIffExhausted ==
    Returned =>
        /\ NotConvergedPrinted <=> Exhausted
        /\ ConvergedRun => ~NotConvergedPrinted

====
